---- MODULE Spec2Model ----
(***************************************************************************)
(* Model of src/src/App.tsx: the per-image pipeline processImage (read,    *)
(* decode, downscale, quality search, fallback), the batch handler onDrop  *)
(* (Promise.all over the pipelines, then publish) and downloadAll (JSZip). *)
(*                                                                         *)
(* JavaScript numbers are IEEE-754 doubles.  The two places where the code *)
(* computes with fractions (quality -= 0.1, height * (1600 / width)) are   *)
(* modelled bit for bit: every arithmetic result is the exact result       *)
(* rounded to 53 significant bits, ties to even.                           *)
(***************************************************************************)
EXTENDS Integers, Sequences, FiniteSets, TLC

(***************************************************************************)
(* Bounds of the explored inputs.                                          *)
(***************************************************************************)
MaxFileSize == 2      \* file.size ranges over 1..MaxFileSize
EncLen == 3           \* the encoder's output size varies over its first EncLen calls
MaxFiles == 3         \* files dropped in one session, over all batches
MaxDrops == 2         \* batches dropped in one session

(***************************************************************************)
(* IEEE-754 double arithmetic on non-negative values.  A double is the     *)
(* sequence of the NBytes base-256 digits of its value, most significant   *)
(* first: IntBytes digits of integer part, then the fraction.              *)
(***************************************************************************)
IntBytes == 2
NBytes == 10
MantissaBits == 53
Base == 256
W == 8 * NBytes

RECURSIVE Pow2(_)
Pow2(pn) == IF pn = 0 THEN 1 ELSE 2 * Pow2(pn - 1)

\* the integer fn (0 <= fn < 2^16) as a double
FromInt(fn) ==
  [fi \in 1..NBytes |-> IF fi = 1 THEN fn \div Base ELSE IF fi = 2 THEN fn % Base ELSE 0] \o <<>>

\* conversion of a double to an unsigned long (canvas.width, canvas.height):
\* the fraction is dropped
Trunc(ux) == ux[1] * Base + ux[2]

\* bit bi of bx, bit 1 the most significant
Bit(bx, bi) == (bx[((bi - 1) \div 8) + 1] \div Pow2(7 - ((bi - 1) % 8))) % 2

\* position of the leading 1 bit, 0 for the value zero
Lead(lx) ==
  IF \A lc \in 1..NBytes : lx[lc] = 0 THEN 0
  ELSE LET first == CHOOSE lc \in 1..NBytes : lx[lc] # 0 /\ \A ld \in 1..(lc - 1) : lx[ld] = 0
           len == CHOOSE ln \in 1..8 : Pow2(ln - 1) <= lx[first] /\ lx[first] < Pow2(ln)
       IN 8 * (first - 1) + (9 - len)

FLt(cx, cy) == \E ci \in 1..NBytes : cx[ci] < cy[ci] /\ \A cj \in 1..(ci - 1) : cx[cj] = cy[cj]
FGt(gx, gy) == FLt(gy, gx)

\* add au, the weight of one bit of digit ac, to ax
AddUnit(ax, ac, au) ==
  IF ax[ac] + au < Base THEN [ax EXCEPT ![ac] = @ + au]
  ELSE LET ak == CHOOSE ai \in 0..(ac - 1) :
                   (ai = 0 \/ ax[ai] # Base - 1) /\ \A aj \in (ai + 1)..(ac - 1) : ax[aj] = Base - 1
       IN [ai \in 1..NBytes |-> IF ai = ak THEN ax[ai] + 1
                                ELSE IF ai > ak /\ ai < ac THEN 0
                                ELSE IF ai = ac THEN ax[ai] + au - Base
                                ELSE ax[ai]] \o <<>>

\* round to MantissaBits significant bits, ties to even; sticky tells that
\* the exact value has non-zero bits below the last bit of rx
Round53(rx, sticky) ==
  LET lead == Lead(rx)
      last == lead + MantissaBits - 1
  IN IF lead = 0 \/ last >= W THEN rx
     ELSE LET guard == Bit(rx, last + 1)
              rest == sticky \/ \E ri \in (last + 2)..W : Bit(rx, ri) = 1
              lc == ((last - 1) \div 8) + 1
              unit == Pow2(7 - ((last - 1) % 8))
              kept == [ri \in 1..NBytes |-> IF ri < lc THEN rx[ri]
                                            ELSE IF ri = lc THEN rx[ri] - (rx[ri] % unit)
                                            ELSE 0] \o <<>>
          IN IF guard = 1 /\ (rest \/ Bit(rx, last) = 1) THEN AddUnit(kept, lc, unit) ELSE kept

\* the borrow out of digit bc when subtracting by from bx
RECURSIVE SubBorrow(_, _, _)
SubBorrow(bx, by, bc) ==
  IF bc > NBytes THEN 0
  ELSE IF bx[bc] - by[bc] - SubBorrow(bx, by, bc + 1) < 0 THEN 1 ELSE 0

\* mx - my for mx >= my
FSub(mx, my) ==
  Round53([si \in 1..NBytes |->
             (mx[si] - my[si] - SubBorrow(mx, my, si + 1) + Base) % Base] \o <<>>,
          FALSE)

\* 256^ek mod ed
RECURSIVE PowMod(_, _)
PowMod(ek, ed) == IF ek = 0 THEN 1 % ed ELSE (Base * PowMod(ek - 1, ed)) % ed

\* da / dd for integers 0 <= da < 2^16, 0 < dd < 2^15: digit k of the
\* fraction is floor(256 * ((da * 256^(k-1)) mod dd) / dd)
FDiv(da, dd) ==
  LET ip == FromInt(da \div dd)
      am == da % dd
      dq == [di \in 1..NBytes |->
               IF di <= IntBytes THEN ip[di]
               ELSE (Base * ((am * PowMod(di - IntBytes - 1, dd)) % dd)) \div dd] \o <<>>
  IN Round53(dq, (am * PowMod(NBytes - IntBytes, dd)) % dd # 0)

\* the carry out of digit kc when multiplying kx by kh
RECURSIVE MulCarry(_, _, _)
MulCarry(kx, kh, kc) ==
  IF kc > NBytes THEN 0 ELSE (kh * kx[kc] + MulCarry(kx, kh, kc + 1)) \div Base

\* ph * px for an integer 0 <= ph < 2^16
FMul(ph, px) ==
  Round53([pi \in 1..NBytes |-> (ph * px[pi] + MulCarry(px, ph, pi + 1)) % Base] \o <<>>, FALSE)

FZero == FromInt(0)

(***************************************************************************)
(* Inputs.  A file name is the sequence of its tokens: "." and "/" are     *)
(* tokens of their own, every other token is a run of other characters.    *)
(* A File is what the browser hands to onDrop: name, content (data), size, *)
(* and what decoding and encoding it will yield: the pixel dimensions,     *)
(* whether it decodes at all, and enc, the byte size of the WebP the       *)
(* canvas encoder returns on its k-th call (constant from call EncLen on). *)
(***************************************************************************)
PNG(base) == <<base, ".", "png">>
JPG(base) == <<base, ".", "jpg">>

Names == { PNG("a"), JPG("a"), <<"a">>, <<"a", ".">>, <<".", "png">>,
           <<"a", ".", "b", ".", "png">>, <<"a", ".", "b", "/", "c">> }

Dimensions == { <<800, 600>>, <<1600, 1200>>, <<1601, 900>>, <<2000, 1000>>,
                <<3200, 3>>, <<3200, 1>>, <<1856, 145>>, <<1684, 2105>>,
                <<4000, 3000>>, <<4800, 7>> }

EncSizes == 0..(MaxFileSize + 1)

File(name, data, size, dims, decodes, enc) ==
  [name |-> name, data |-> data, size |-> size, width |-> dims[1],
   height |-> dims[2], decodes |-> decodes, enc |-> enc]

ConstEnc(n) == [k \in 1..EncLen |-> n]

\* one file, every size and every encoder behaviour
SearchFiles ==
  { File(PNG("a"), 1, s, <<800, 600>>, TRUE, e) : s \in 1..MaxFileSize, e \in [1..EncLen -> EncSizes] }
\* one file, every dimension
DimFiles == { File(PNG("a"), 1, MaxFileSize, d, TRUE, ConstEnc(1)) : d \in Dimensions }
\* one file, every name, compressible or not
NameFiles == { File(n, 1, MaxFileSize, <<800, 600>>, TRUE, ConstEnc(c)) : n \in Names, c \in {1, MaxFileSize} }

\* the files of the multi-file batches: two that compress to the same output
\* name (the second only at the second quality), and one that does not decode
Catalogue ==
  { File(PNG("a"), 1, MaxFileSize, <<800, 600>>, TRUE, ConstEnc(1)),
    File(JPG("a"), 2, MaxFileSize, <<2000, 1000>>, TRUE,
         [k \in 1..EncLen |-> IF k = 1 THEN MaxFileSize + 1 ELSE 1]),
    File(PNG("c"), 3, 1, <<800, 600>>, FALSE, ConstEnc(1)) }

\* the sequences of k non-empty batches over the Catalogue with at most m files in all
RECURSIVE DropSeqs(_, _)
DropSeqs(k, m) ==
  IF k = 0 THEN { <<>> }
  ELSE UNION { { <<bt>> \o rest : bt \in [1..n -> Catalogue], rest \in DropSeqs(k - 1, m - n) }
               : n \in 1..m }

SingleInputs == { << <<f>> >> : f \in SearchFiles \cup DimFiles \cup NameFiles }
BatchInputs == UNION { DropSeqs(k, MaxFiles) : k \in 1..MaxDrops }

(***************************************************************************)
(* State.                                                                  *)
(***************************************************************************)
VARIABLES
  pending,          \* the batches the user has yet to drop
  batches,          \* one record per call of onDrop: files, pipelines, settle order, done
  processedImages,  \* React state (line 14)
  isProcessing,     \* React state (line 15)
  publishedBy,      \* the call of onDrop that last ran setProcessedImages, 0 if none
  zip,              \* the JSZip instance of the last downloadAll: entry name -> data
  zipInput          \* the processedImages the last downloadAll read

vars == <<pending, batches, processedImages, isProcessing, publishedBy, zip, zipInput>>

(***************************************************************************)
(* Data URLs: <<header, payload>>, the parts before and after the comma.   *)
(***************************************************************************)
Payload(kind, image, width, height, quality, bytes) ==
  [kind |-> kind, image |-> image, width |-> width, height |-> height,
   quality |-> quality, bytes |-> bytes]

NoUrl == <<"", Payload("none", 0, 0, 0, FZero, 0)>>
NoResult == [name |-> <<>>, url |-> NoUrl, size |-> 0, originalSize |-> 0]

\* reader.readAsDataURL(file): the file's own bytes
readAsDataURL(file) ==
  <<"data:image;base64", Payload("file", file.data, file.width, file.height, FZero, file.size)>>

\* size of the encoder's output on its calls-th call for this file
EncSize(file, calls) == file.enc[IF calls < EncLen THEN calls ELSE EncLen]

\* canvas.toDataURL('image/webp', quality); a canvas without pixels yields "data:,"
toDataURL(file, width, height, quality, calls) ==
  IF width = 0 \/ height = 0
  THEN <<"data:", Payload("empty", 0, 0, 0, FZero, 0)>>
  ELSE <<"data:image/webp;base64",
         Payload("webp", file.data, width, height, quality, EncSize(file, calls))>>

\* (await (await fetch(url)).blob()).size
BlobSize(url) == url[2].bytes

(***************************************************************************)
(* processImage, lines 17-74.                                              *)
(***************************************************************************)
MaxWidth == 1600

\* lines 24-35: the canvas dimensions for a decoded image
CanvasSize(width, height) ==
  IF width > MaxWidth
  THEN LET ratio == FDiv(MaxWidth, width)
       IN <<MaxWidth, Trunc(FMul(height, ratio))>>
  ELSE <<width, height>>

\* a search that starts one step higher
InitialQualityHigh == FDiv(9, 10)
InitialQuality == FDiv(8, 10)     \* line 40
QualityFloor == FDiv(1, 10)       \* line 46
QualityStep == FDiv(1, 10)        \* line 47

\* line 46
LoopContinues(blobSize, fileSize, quality) ==
  blobSize > fileSize /\ FGt(quality, QualityFloor)

\* a fallback that keeps an encoding of exactly the original size
UseOriginalStrict(blobSize, fileSize) == blobSize > fileSize
\* line 54
UseOriginal(blobSize, fileSize) == blobSize >= fileSize

\* file.name.replace(/\.[^/.]+$/, ''), line 63
StripExtension(name) ==
  LET matches == { i \in 1..Len(name) :
                     /\ name[i] = "."
                     /\ i < Len(name)
                     /\ \A j \in (i + 1)..Len(name) : name[j] \notin {".", "/"} }
  IN IF matches = {} THEN name
     ELSE SubSeq(name, 1, (CHOOSE i \in matches : \A j \in matches : i <= j) - 1)

Marker == <<"-optimized", ".", "webp">>

\* lines 55-60
OriginalResult(file, dataUrl) ==
  [name |-> file.name, url |-> dataUrl, size |-> file.size, originalSize |-> file.size]

\* a result that reports the original size as its own
OptimizedResultFileSize(file, webpUrl, blobSize) ==
  [name |-> StripExtension(file.name) \o Marker, url |-> webpUrl,
   size |-> file.size, originalSize |-> file.size]
\* lines 62-67
OptimizedResult(file, webpUrl, blobSize) ==
  [name |-> StripExtension(file.name) \o Marker, url |-> webpUrl,
   size |-> blobSize, originalSize |-> file.size]

\* line 17-19, 72: the pipeline just after processImage returned its promise
NewPipe ==
  [pc |-> "reading", dataUrl |-> NoUrl, width |-> 0, height |-> 0,
   quality |-> FZero, webpUrl |-> NoUrl, encodes |-> 0, sizes |-> <<>>,
   result |-> NoResult]

\* a join that collects the results as they settle
PromiseAllSettleOrder(batch) ==
  [k \in 1..Len(batch.files) |-> batch.pipes[batch.order[k]].result]
\* Promise.all, line 78: the results in the order of the promises
PromiseAll(batch) == [i \in 1..Len(batch.files) |-> batch.pipes[i].result]

Pipes == { <<b, i>> \in (1..MaxDrops) \X (1..MaxFiles) :
             b <= Len(batches) /\ i <= Len(batches[b].files) }

\* lines 76-79: onDrop up to its await
onDrop ==
  /\ pending # <<>>
  /\ LET files == Head(pending)
     IN batches' = Append(batches,
                     [files |-> files,
                      pipes |-> [i \in 1..Len(files) |-> NewPipe],
                      order |-> <<>>,
                      done |-> FALSE])
  /\ pending' = Tail(pending)
  /\ isProcessing' = TRUE
  /\ UNCHANGED <<processedImages, publishedBy, zip, zipInput>>

\* lines 20-21, 70: the file has been read; decoding starts
readerOnload(b, i) ==
  /\ <<b, i>> \in Pipes
  /\ batches[b].pipes[i].pc = "reading"
  /\ batches' = [batches EXCEPT ![b].pipes[i] =
                   [@ EXCEPT !.pc = "decoding",
                             !.dataUrl = readAsDataURL(batches[b].files[i])]]
  /\ UNCHANGED <<pending, processedImages, isProcessing, publishedBy, zip, zipInput>>

\* lines 22-42: the image decoded; canvas, first encoding, first await
imgOnload(b, i) ==
  /\ <<b, i>> \in Pipes
  /\ batches[b].pipes[i].pc = "decoding"
  /\ batches[b].files[i].decodes
  /\ LET file == batches[b].files[i]
         size == CanvasSize(file.width, file.height)
     IN batches' = [batches EXCEPT ![b].pipes[i] =
                      [@ EXCEPT !.pc = "awaitBlob",
                                !.width = size[1],
                                !.height = size[2],
                                !.quality = InitialQuality,
                                !.webpUrl = toDataURL(file, size[1], size[2], InitialQuality, 1),
                                !.encodes = 1]]
  /\ UNCHANGED <<pending, processedImages, isProcessing, publishedBy, zip, zipInput>>

\* the image does not decode: the error event has no listener (no img.onerror,
\* lines 21-70), so the promise of line 18 stays pending for ever
imgOnerror(b, i) ==
  /\ <<b, i>> \in Pipes
  /\ batches[b].pipes[i].pc = "decoding"
  /\ ~ batches[b].files[i].decodes
  /\ batches' = [batches EXCEPT ![b].pipes[i].pc = "failed"]
  /\ UNCHANGED <<pending, processedImages, isProcessing, publishedBy, zip, zipInput>>

\* lines 43/50 then 46-49: the blob arrived and the loop goes round once more
encodeAgain(b, i) ==
  /\ <<b, i>> \in Pipes
  /\ batches[b].pipes[i].pc = "awaitBlob"
  /\ LET file == batches[b].files[i]
         pipe == batches[b].pipes[i]
         blobSize == BlobSize(pipe.webpUrl)
         quality == FSub(pipe.quality, QualityStep)
     IN /\ LoopContinues(blobSize, file.size, pipe.quality)
        /\ batches' = [batches EXCEPT ![b].pipes[i] =
                         [@ EXCEPT !.quality = quality,
                                   !.webpUrl = toDataURL(file, pipe.width, pipe.height,
                                                         quality, pipe.encodes + 1),
                                   !.encodes = pipe.encodes + 1,
                                   !.sizes = Append(pipe.sizes, blobSize)]]
  /\ UNCHANGED <<pending, processedImages, isProcessing, publishedBy, zip, zipInput>>

\* lines 43/50 then 46, 54-68: the blob arrived, the loop exits and the promise
\* resolves; when it is the last of its batch, Promise.all resolves and onDrop
\* runs on (lines 81-82) before any other event is dispatched
resolve(b, i) ==
  /\ <<b, i>> \in Pipes
  /\ batches[b].pipes[i].pc = "awaitBlob"
  /\ LET file == batches[b].files[i]
         pipe == batches[b].pipes[i]
         blobSize == BlobSize(pipe.webpUrl)
         result == IF UseOriginal(blobSize, file.size)
                   THEN OriginalResult(file, pipe.dataUrl)
                   ELSE OptimizedResult(file, pipe.webpUrl, blobSize)
         batch == [batches[b] EXCEPT
                     !.pipes[i] = [@ EXCEPT !.pc = "resolved",
                                            !.result = result,
                                            !.sizes = Append(pipe.sizes, blobSize)],
                     !.order = Append(@, i)]
         all == \A j \in 1..Len(batch.files) : batch.pipes[j].pc = "resolved"
     IN /\ ~ LoopContinues(blobSize, file.size, pipe.quality)
        /\ batches' = [batches EXCEPT ![b] = [batch EXCEPT !.done = all]]
        /\ IF all
           THEN /\ processedImages' = PromiseAll(batch)
                /\ isProcessing' = FALSE
                /\ publishedBy' = b
           ELSE UNCHANGED <<processedImages, isProcessing, publishedBy>>
  /\ UNCHANGED <<pending, zip, zipInput>>

(***************************************************************************)
(* downloadAll, lines 92-111.                                              *)
(***************************************************************************)
\* zip.file(name, data): JSZip keeps its entries in an object keyed by name
ZipFile(entries, name, data) ==
  [n \in (DOMAIN entries) \cup {name} |-> IF n = name THEN data ELSE entries[n]]

\* lines 96-100
RECURSIVE ZipAll(_, _, _)
ZipAll(entries, images, k) ==
  IF k > Len(images) THEN entries
  ELSE ZipAll(ZipFile(entries, images[k].name, images[k].url[2]), images, k + 1)

\* the button is rendered when processedImages.length > 0 && !isProcessing (line 156)
downloadAll ==
  /\ Len(processedImages) > 0
  /\ ~ isProcessing
  /\ zip' = ZipAll(<<>>, processedImages, 1)
  /\ zipInput' = processedImages
  /\ UNCHANGED <<pending, batches, processedImages, isProcessing, publishedBy>>

(***************************************************************************)
(* Specifications.                                                         *)
(***************************************************************************)
Init ==
  /\ pending \in SingleInputs \cup BatchInputs
  /\ batches = <<>>
  /\ processedImages = <<>>
  /\ isProcessing = FALSE
  /\ publishedBy = 0
  /\ zip = <<>>
  /\ zipInput = <<>>

PipeStep(b, i) ==
  \/ readerOnload(b, i)
  \/ imgOnload(b, i)
  \/ imgOnerror(b, i)
  \/ encodeAgain(b, i)
  \/ resolve(b, i)

Next ==
  \/ onDrop
  \/ \E b \in 1..MaxDrops, i \in 1..MaxFiles : PipeStep(b, i)
  \/ downloadAll

Spec == Init /\ [][Next]_vars

(***************************************************************************)
(* Properties.                                                             *)
(***************************************************************************)
Started == { p \in Pipes : batches[p[1]].pipes[p[2]].pc \in {"awaitBlob", "resolved"} }
Resolved == { p \in Pipes : batches[p[1]].pipes[p[2]].pc = "resolved" }
PipeAt(p) == batches[p[1]].pipes[p[2]]
FileAt(p) == batches[p[1]].files[p[2]]
Last(seq) == seq[Len(seq)]

\* C1: when the encoding held at the exit of the quality loop is not smaller
\* than the file, the result is the original: its name, its bytes, and
\* size = originalSize = file.size
C1_FallbackIsOriginal ==
  \A p \in Resolved :
    Last(PipeAt(p).sizes) >= FileAt(p).size =>
      /\ PipeAt(p).result.name = FileAt(p).name
      /\ PipeAt(p).result.url[2].kind = "file"
      /\ PipeAt(p).result.url[2].image = FileAt(p).data
      /\ PipeAt(p).result.url[2].bytes = FileAt(p).size
      /\ PipeAt(p).result.size = FileAt(p).size
      /\ PipeAt(p).result.originalSize = FileAt(p).size

\* a search that went down the whole ladder and still fell back
C1_Witness ==
  \E p \in Resolved :
    Last(PipeAt(p).sizes) > FileAt(p).size /\ PipeAt(p).encodes > EncLen

\* rn is fn without its extension (a final "." followed by tokens other than
\* "." and "/"), followed by the marker
IsExtensionAt(fn, k) ==
  /\ k < Len(fn)
  /\ fn[k] = "."
  /\ \A j \in (k + 1)..Len(fn) : fn[j] # "." /\ fn[j] # "/"
HasOptimizedName(rn, fn) ==
  \/ /\ \A k \in 1..Len(fn) : ~ IsExtensionAt(fn, k)
     /\ rn = fn \o Marker
  \/ \E k \in 1..Len(fn) : IsExtensionAt(fn, k) /\ rn = SubSeq(fn, 1, k - 1) \o Marker

\* C2: when the search reaches an encoding strictly smaller than the file,
\* the result is that encoding: size is its byte length, size < originalSize,
\* and the name is the file's name with its extension replaced by
\* -optimized.webp
C2_SmallerIsReturned ==
  \A p \in Resolved :
    (\E k \in 1..Len(PipeAt(p).sizes) : PipeAt(p).sizes[k] < FileAt(p).size) =>
      /\ Last(PipeAt(p).sizes) < FileAt(p).size
      /\ PipeAt(p).result.size = Last(PipeAt(p).sizes)
      /\ PipeAt(p).result.size = PipeAt(p).result.url[2].bytes
      /\ PipeAt(p).result.url = PipeAt(p).webpUrl
      /\ PipeAt(p).result.url[2].kind # "file"
      /\ PipeAt(p).result.size < PipeAt(p).result.originalSize
      /\ PipeAt(p).result.originalSize = FileAt(p).size
      /\ HasOptimizedName(PipeAt(p).result.name, FileAt(p).name)

\* a smaller, non-empty encoding found after a larger one
C2_Witness ==
  \E p \in Resolved :
    /\ PipeAt(p).encodes > 1
    /\ PipeAt(p).sizes[1] > FileAt(p).size
    /\ Last(PipeAt(p).sizes) < FileAt(p).size
    /\ Last(PipeAt(p).sizes) > 0

\* 2^-50
Eps == [i \in 1..NBytes |-> IF i = 9 THEN 64 ELSE 0] \o <<>>
\* the double q is within 2^-50 of n / 10
Near(q, n) ==
  LET t == FDiv(n, 10)
  IN FLt(IF FLt(q, t) THEN FSub(t, q) ELSE FSub(q, t), Eps)

\* C3 as stated: at most 7 encodings, none at a quality <= 0.1
C3_AtMostSeven ==
  \A p \in Started :
    /\ PipeAt(p).encodes \in 1..7
    /\ FGt(PipeAt(p).quality, FDiv(1, 10))

\* C3 as it holds: the search performs at least 1 and at most 9 encodings;
\* the k-th is at the quality that k-1 double subtractions of 0.1 leave of
\* 0.8, which is within 2^-50 of (9-k)/10; the first eight are above 0.1, the
\* ninth is positive and below 0.1
C3_AtMostNine ==
  \A p \in Started :
    /\ PipeAt(p).encodes \in 1..9
    /\ Near(PipeAt(p).quality, 9 - PipeAt(p).encodes)
    /\ PipeAt(p).encodes <= 8 => FGt(PipeAt(p).quality, FDiv(1, 10))
    /\ PipeAt(p).encodes = 9 =>
         FLt(PipeAt(p).quality, FDiv(1, 10)) /\ FGt(PipeAt(p).quality, FZero)
    /\ Len(PipeAt(p).sizes) =
         (IF PipeAt(p).pc = "resolved" THEN PipeAt(p).encodes ELSE PipeAt(p).encodes - 1)

\* a search that encoded nine times
C3_Witness == \E p \in Resolved : PipeAt(p).encodes = 9

\* C4: the canvas is (w, h) for w <= 1600 and (1600, round(h * 1600 / w))
\* for w > 1600, and stays so during the quality search
C4_RoundedHeight ==
  \A p \in Started :
    IF FileAt(p).width <= 1600
    THEN PipeAt(p).width = FileAt(p).width /\ PipeAt(p).height = FileAt(p).height
    ELSE /\ PipeAt(p).width = 1600
         /\ PipeAt(p).height =
              (2 * FileAt(p).height * 1600 + FileAt(p).width) \div (2 * FileAt(p).width)

\* the result is derived from the file
ResultOf(result, file) ==
  /\ result.originalSize = file.size
  /\ \/ result.name = file.name /\ result.url[2].kind = "file"
     \/ HasOptimizedName(result.name, file.name) /\ result.url[2].kind # "file"
  /\ result.url[2].kind # "empty" => result.url[2].image = file.data

\* C5: the published processedImages has the result of the i-th dropped file
\* at position i, whatever the order in which the pipelines settled
C5_SubmissionOrder ==
  publishedBy # 0 =>
    /\ Len(processedImages) = Len(batches[publishedBy].files)
    /\ \A i \in 1..Len(processedImages) :
         ResultOf(processedImages[i], batches[publishedBy].files[i])

\* a published batch of different files whose first file did not settle first
C5_Witness ==
  /\ publishedBy # 0
  /\ Len(batches[publishedBy].files) >= 2
  /\ batches[publishedBy].order[1] # 1
  /\ batches[publishedBy].files[1].data # batches[publishedBy].files[batches[publishedBy].order[1]].data

\* exactly one file of the batch does not decode, and there are others
OneFails(files) ==
  /\ Len(files) >= 2
  /\ Cardinality({ i \in 1..Len(files) : ~ files[i].decodes }) = 1

\* C6: in a batch where one file fails to decode and the others are well
\* formed, the others complete and the batch is published: once every
\* pipeline of the batch has come to rest, the batch has been published, and
\* processedImages holds the results of the others if no later batch
\* replaced them
C6_SiblingsPublished ==
  \A b \in 1..Len(batches) :
    (/\ OneFails(batches[b].files)
     /\ \A i \in 1..Len(batches[b].files) : batches[b].pipes[i].pc \in {"resolved", "failed"})
    => /\ batches[b].done
       /\ publishedBy = b =>
            \A i \in 1..Len(batches[b].files) :
              batches[b].files[i].decodes =>
                \E j \in 1..Len(processedImages) :
                  ResultOf(processedImages[j], batches[b].files[i])

\* C7: the archive has one entry per result, and every result's name maps to
\* its payload
C7_ArchiveComplete ==
  zipInput # <<>> =>
    /\ Cardinality(DOMAIN zip) = Len(zipInput)
    /\ \A i \in 1..Len(zipInput) :
         /\ zipInput[i].name \in DOMAIN zip
         /\ zip[zipInput[i].name] = zipInput[i].url[2]

\* C8: when some quality of the ladder yields an encoding smaller than the
\* file, the result is a re-encoding smaller than the file
C8_SmallerWhenPossible ==
  \A p \in Resolved :
    (\E k \in 1..EncLen : EncSize(FileAt(p), k) < FileAt(p).size) =>
      /\ PipeAt(p).result.size < PipeAt(p).result.originalSize
      /\ PipeAt(p).result.url[2].kind # "file"

InFlight == { b \in 1..Len(batches) : ~ batches[b].done }

\* C9: a batch is published only when all its pipelines have resolved, what
\* is published is a whole batch, and isProcessing is true from the drop
\* until then
C9_JoinAll ==
  /\ \A b \in 1..Len(batches) :
       batches[b].done =>
         \A i \in 1..Len(batches[b].files) : batches[b].pipes[i].pc = "resolved"
  /\ publishedBy # 0 => Len(processedImages) = Len(batches[publishedBy].files)
  /\ publishedBy = 0 => processedImages = <<>>
  /\ \A b \in InFlight : isProcessing

\* C10: once two batches have settled, processedImages holds the results of
\* the later one, and isProcessing is not false while a batch is in flight
C10_LatestBatchWins ==
  /\ (Len(batches) >= 2 /\ InFlight = {}) =>
       /\ publishedBy = Len(batches)
       /\ processedImages = PromiseAll(batches[Len(batches)])
  /\ InFlight # {} => isProcessing
====
